---- MODULE Spec2Model ----
(***************************************************************************)
(* Model of the tech-digest pipeline: change extraction, rule-based        *)
(* classification, the "Try This" selector (digest.py), the feed adapter   *)
(* (sources.py), delivery (digest.py, bot.py) and the persisted tracking   *)
(* state described by the design document.                                 *)
(*                                                                         *)
(* Text is a sequence of one-character strings, so that the regular        *)
(* expressions of the source are evaluated character by character.         *)
(***************************************************************************)
EXTENDS Integers, Sequences, FiniteSets, TLC

VARIABLES
    change,         \* categorize_change: the argument
    category_log,   \* categorize_change: the values returned by successive calls
    body,           \* parse_changes: the argument, <<>> for None, <<text>> otherwise
    changes,        \* parse_changes: the returned list
    change_lines,   \* parse_changes: for each returned change, the line it came from
    parse_done,     \* parse_changes has returned
    all_changes,    \* identify_try_this: the argument
    notable,        \* identify_try_this: the candidate list after the first loop
    try_this,       \* identify_try_this: the returned list
    select_done,    \* identify_try_this has returned
    digest,         \* send_digest: the composed digest text
    posted,         \* send_digest: the payloads handed to requests.post
    send_done,      \* send_digest has returned
    send_ok,        \* send_digest: the returned value
    reply,          \* bot send_message: the text argument
    reply_posted,   \* bot send_message: the chunks handed to requests.post
    reply_done,     \* bot send_message has returned or raised
    store,          \* the persisted tracking state: source key -> SourceState
    pc,             \* pipeline run: "idle", "delivering" or "done"
    loaded,         \* pipeline run: the tracking state as loaded at the start
    fetched,        \* pipeline run: what the network answered for each source
    data,           \* pipeline run: what get_release_data returned for each source
    scratch,        \* pipeline run: the updated tracking state to commit
    chunks,         \* pipeline run: the chunks of the composed digest
    attempts,       \* pipeline run: the outcome of each chunk send so far
    run_result,     \* pipeline run: "none", "running", "ok" or "failed"
    previous,       \* pipeline run: "caught-up" when the run before this one had
                    \* nothing new and was delivered, else "other" ("none": no run before)
    preview_only,   \* digest command line: "--preview" in sys.argv
    enrich,         \* digest command line: "--enrich" in sys.argv
    has_credentials,\* the Telegram credentials are in the environment
    api,            \* what the GitHub API answers to fetch_releases
    cli_pc,         \* digest command line: "main", "fetched", "enriched", "formatted", "exited"
    cli_releases,   \* send_digest, preview_digest: releases, the fetched releases
    enrichment,     \* send_digest, preview_digest: the community section, "" for none
    categorized,    \* format_digest: category -> changes
    digest_text,    \* send_digest, preview_digest: the formatted digest
    payload_text,   \* send_digest: payload['text'] of the post, None before
    post_outcome,   \* send_digest: "none", "accepted" or "refused"
    events,         \* the calls made so far: "fetch", "enrich", "notifier", "post"
    report,         \* send_digest: the message printed about the delivery
    success,        \* send_digest: the returned value, None before
    exit_status,    \* the exit status of the process, None while it runs
    tg_updates,     \* Telegram server: the updates created so far, in id order
    tg_confirmed,   \* Telegram server: every update up to this id is confirmed
    offset_file,    \* bot: the content of OFFSET_FILE, None without a file
    session_file,   \* bot: the content of SESSION_FILE, None without a file
    offset,         \* bot main: offset
    retries,        \* bot main: retries
    delay,          \* bot main: the last back-off delay, in seconds
    bot_pc,         \* bot main: "poll", "batch" or "handling"
    batch,          \* bot main: the updates of the for loop not yet finished
    dequeued,       \* the ids of the updates the for loop has taken, in order
    handled,        \* the ids of the updates passed to handle_message, in order
    claude_runs,    \* the ids of the updates for which run_claude was called
    commits,        \* the ids of the updates for which a commit was made
    replies,        \* the messages sent by send_message, in order
    interrupted     \* the ids of the updates whose handling a restart cut short

classifierVars == <<change, category_log>>
parserVars == <<body, changes, change_lines, parse_done>>
selectorVars == <<all_changes, notable, try_this, select_done>>
deliveryVars == <<digest, posted, send_done, send_ok, reply, reply_posted, reply_done>>
runVars == <<store, pc, loaded, fetched, data, scratch, chunks, attempts, run_result, previous>>
digestVars == <<preview_only, enrich, has_credentials, api, cli_pc, cli_releases, enrichment,
                categorized, digest_text, payload_text, post_outcome, events, report,
                success, exit_status>>
botVars == <<tg_updates, tg_confirmed, offset_file, session_file, offset, retries, delay,
             bot_pc, batch, dequeued, handled, claude_runs, commits, replies, interrupted>>
vars == <<classifierVars, parserVars, selectorVars, deliveryVars, runVars, digestVars, botVars>>

----------------------------------------------------------------------------
(* Generic helpers *)

Range(f) == {f[i] : i \in DOMAIN f}

Min(S) == CHOOSE x \in S : \A y \in S : x <= y

\* sep.join(parts)
RECURSIVE str_join(_, _)
str_join(sep, parts) ==
    IF parts = <<>> THEN <<>>
    ELSE IF Len(parts) = 1 THEN parts[1]
    ELSE parts[1] \o sep \o str_join(sep, Tail(parts))

----------------------------------------------------------------------------
(* Characters, str.lower() and the regular-expression classes \w, \s, \d *)

LowerCase == <<"a","b","c","d","e","f","g","h","i","j","k","l","m",
               "n","o","p","q","r","s","t","u","v","w","x","y","z">>
UpperCase == <<"A","B","C","D","E","F","G","H","I","J","K","L","M",
               "N","O","P","Q","R","S","T","U","V","W","X","Y","Z">>
Digits == {"0","1","2","3","4","5","6","7","8","9"}
Whitespace == {" ", "\t", "\r", "\n"}

\* upper-case letter -> lower-case letter
LowerOf == [c \in Range(UpperCase) |-> LowerCase[CHOOSE i \in 1..26 : UpperCase[i] = c]]

char_lower(c) == IF c \in DOMAIN LowerOf THEN LowerOf[c] ELSE c

str_lower(s) == [i \in 1..Len(s) |-> char_lower(s[i])]

\* the class \w
WordChars == Range(LowerCase) \cup Range(UpperCase) \cup Digits \cup {"_"}

IsWordChar(c) == c \in WordChars

\* A pattern of the source is: optional ^, optional leading \b, a literal,
\* an optional last character (the "d?" of "added?"), optional trailing \b.
Pat(bol, wb, lit, opt, we) ==
    [bol |-> bol, wb |-> wb, lit |-> lit, opt |-> opt, we |-> we]

has_at(s, i, lit) ==
    /\ i + Len(lit) - 1 <= Len(s)
    /\ \A k \in 1..Len(lit) : s[i + k - 1] = lit[k]

word_at(s, i) == i \in 1..Len(s) /\ IsWordChar(s[i])

\* \b holds between s[i-1] and s[i]
boundary(s, i) == word_at(s, i - 1) # word_at(s, i)

match_at(p, s, i) ==
    /\ p.wb => boundary(s, i)
    /\ \E l \in {p.lit \o p.opt, p.lit} :
          has_at(s, i, l) /\ (p.we => boundary(s, i + Len(l)))

\* re.search(pattern, s): ^ anchors at the start of the string only
re_search(p, s) ==
    \E i \in (IF p.bol THEN {1} ELSE 1..(Len(s) + 1)) : match_at(p, s, i)

----------------------------------------------------------------------------
(* digest.py: CATEGORY_RULES and categorize_change *)

CATEGORY_RULES == <<
    [category |-> "Bug Fixes", patterns |-> <<
        Pat(TRUE,  FALSE, <<"f","i","x">>, <<>>, FALSE),
        Pat(FALSE, TRUE,  <<"f","i","x","e","d">>, <<>>, TRUE),
        Pat(FALSE, TRUE,  <<"f","i","x">>, <<>>, TRUE),
        Pat(FALSE, TRUE,  <<"r","e","s","o","l","v","e">>, <<>>, FALSE),
        Pat(FALSE, TRUE,  <<"p","a","t","c","h">>, <<>>, TRUE) >>],
    [category |-> "IDE & Editor", patterns |-> <<
        Pat(FALSE, FALSE, <<"[","v","s","c","o","d","e","]">>, <<>>, FALSE),
        Pat(FALSE, FALSE, <<"[","i","d","e","]">>, <<>>, FALSE),
        Pat(FALSE, TRUE,  <<"v","s","c","o","d","e">>, <<>>, TRUE),
        Pat(FALSE, TRUE,  <<"v","i","m">>, <<>>, TRUE),
        Pat(FALSE, TRUE,  <<"n","e","o","v","i","m">>, <<>>, TRUE),
        Pat(FALSE, TRUE,  <<"j","e","t","b","r","a","i","n","s">>, <<>>, TRUE) >>],
    [category |-> "Performance", patterns |-> <<
        Pat(FALSE, TRUE,  <<"p","e","r","f","o","r","m","a","n","c","e">>, <<>>, TRUE),
        Pat(FALSE, TRUE,  <<"f","a","s","t","e","r">>, <<>>, TRUE),
        Pat(FALSE, TRUE,  <<"s","p","e","e","d">>, <<>>, TRUE),
        Pat(FALSE, TRUE,  <<"m","e","m","o","r","y">>, <<>>, TRUE),
        Pat(FALSE, TRUE,  <<"o","p","t","i","m","i","z">>, <<>>, FALSE) >>],
    [category |-> "New Features", patterns |-> <<
        Pat(TRUE,  FALSE, <<"a","d","d","e">>, <<"d">>, TRUE),
        Pat(TRUE,  FALSE, <<"n","e","w">>, <<>>, TRUE),
        Pat(FALSE, TRUE,  <<"i","n","t","r","o","d","u","c","e">>, <<>>, FALSE),
        Pat(TRUE,  FALSE, <<"e","n","a","b","l","e">>, <<"d">>, TRUE),
        Pat(TRUE,  FALSE, <<"i","m","p","l","e","m","e","n","t">>, <<>>, FALSE) >>],
    [category |-> "Improvements", patterns |-> <<
        Pat(TRUE,  FALSE, <<"i","m","p","r","o","v","e">>, <<"d">>, TRUE),
        Pat(TRUE,  FALSE, <<"e","n","h","a","n","c","e">>, <<"d">>, TRUE),
        Pat(TRUE,  FALSE, <<"u","p","d","a","t","e">>, <<"d">>, TRUE),
        Pat(TRUE,  FALSE, <<"b","e","t","t","e","r">>, <<>>, TRUE),
        Pat(TRUE,  FALSE, <<"r","e","f","a","c","t","o","r">>, <<>>, FALSE) >>],
    [category |-> "Documentation", patterns |-> <<
        Pat(FALSE, TRUE,  <<"d","o","c">>, <<>>, TRUE),
        Pat(FALSE, TRUE,  <<"r","e","a","d","m","e">>, <<>>, TRUE),
        Pat(FALSE, TRUE,  <<"g","u","i","d","e">>, <<>>, TRUE),
        Pat(FALSE, TRUE,  <<"t","u","t","o","r","i","a","l">>, <<>>, TRUE) >>],
    [category |-> "Changes", patterns |-> <<
        Pat(TRUE,  FALSE, <<"c","h","a","n","g","e">>, <<"d">>, TRUE) >>] >>

\* any(re.search(p, text) for p in patterns)
any_search(patterns, text) ==
    \E j \in 1..Len(patterns) : re_search(patterns[j], text)

\* the two nested for-loops of categorize_change from rule i on
RECURSIVE first_match(_, _)
first_match(text, i) ==
    IF i > Len(CATEGORY_RULES) THEN "Other Changes"
    ELSE IF any_search(CATEGORY_RULES[i].patterns, text)
         THEN CATEGORY_RULES[i].category
         ELSE first_match(text, i + 1)

\* a slip that drops the .lower() call
categorize_change_nolower(c) == first_match(c, 1)

\* a slip that keeps looping after a match, so that the last matching rule wins
categorize_change_last(c) ==
    LET text == str_lower(c)
        hits == {i \in 1..Len(CATEGORY_RULES) :
                    any_search(CATEGORY_RULES[i].patterns, text)}
    IN  IF hits = {} THEN "Other Changes"
        ELSE CATEGORY_RULES[CHOOSE i \in hits : \A j \in hits : j <= i].category

categorize_change(c) == first_match(str_lower(c), 1)

----------------------------------------------------------------------------
(* Classifier: inputs and calls *)

MaxWords == 2       \* words per generated change text
MaxCalls == 2       \* repeated calls on the same text

Space == <<" ">>

ClassifierWords == {
    <<"F","i","x","e","d">>,
    <<"f","i","x">>,
    <<"p","r","e","f","i","x">>,
    <<"f","i","x","t","u","r","e">>,
    <<"A","d","d","e","d">>,
    <<"a","d","d">>,
    <<"s","p","e","e","d">>,
    <<"i","m","p","r","o","v","e","d">>,
    <<"[","V","S","C","o","d","e","]">>,
    <<"d","o","c","s">>,
    <<"d","o","c">>,
    <<"c","h","a","n","g","e","d">>,
    <<"c","r","a","s","h">> }

FixedCrashOnStartup ==
    <<"F","i","x","e","d"," ","c","r","a","s","h"," ","o","n"," ","s","t","a","r","t","u","p">>
AddedDarkModeToggle ==
    <<"A","d","d","e","d"," ","d","a","r","k"," ","m","o","d","e"," ","t","o","g","g","l","e">>
ImprovedStartupSpeed ==
    <<"i","m","p","r","o","v","e","d"," ","s","t","a","r","t","u","p"," ","s","p","e","e","d">>

\* texts of 0..MaxWords words separated by one space, and the three example lines
ClassifierInputs ==
    {str_join(Space, ws) :
        ws \in UNION {[1..n -> ClassifierWords] : n \in 0..MaxWords}}
    \cup {FixedCrashOnStartup, AddedDarkModeToggle, ImprovedStartupSpeed}

ClassifierInit ==
    /\ change \in ClassifierInputs
    /\ category_log = <<>>

\* the classifier is not in use
ClassifierIdle ==
    /\ change = <<>>
    /\ category_log = <<>>

\* one call categorize_change(change)
Categorize ==
    /\ Len(category_log) < MaxCalls
    /\ category_log' = Append(category_log, categorize_change(change))
    /\ UNCHANGED change

----------------------------------------------------------------------------
(* digest.py: parse_changes *)

\* body.split("\n")
RECURSIVE str_split_nl(_)
str_split_nl(s) ==
    IF \A i \in 1..Len(s) : s[i] # "\n" THEN <<s>>
    ELSE LET k == Min({i \in 1..Len(s) : s[i] = "\n"})
         IN  <<SubSeq(s, 1, k - 1)>> \o str_split_nl(SubSeq(s, k + 1, Len(s)))

\* str.strip()
str_strip(s) ==
    LET inner == {i \in 1..Len(s) : s[i] \notin Whitespace}
    IN  IF inner = {} THEN <<>>
        ELSE SubSeq(s, Min(inner), CHOOSE j \in inner : \A i \in inner : i <= j)

\* number of characters of \s* matched from position i
RECURSIVE ws_run(_, _)
ws_run(s, i) ==
    IF i <= Len(s) /\ s[i] \in Whitespace THEN 1 + ws_run(s, i + 1) ELSE 0

\* number of characters of \d+ matched from position i
RECURSIVE digit_run(_, _)
digit_run(s, i) ==
    IF i <= Len(s) /\ s[i] \in Digits THEN 1 + digit_run(s, i + 1) ELSE 0

\* number of characters of \d+\. matched at position i, 0 for no match
digit_dot_len(s, i) ==
    LET d == digit_run(s, i)
    IN  IF d > 0 /\ i + d <= Len(s) /\ s[i + d] = "." THEN d + 1 ELSE 0

\* re.match(r'^[-*]|\d+\.', line)
is_bullet(line) ==
    /\ line # <<>>
    /\ (line[1] \in {"-", "*"} \/ digit_dot_len(line, 1) > 0)

\* number of characters of ^[-*]\s*|\d+\.\s* matched at position i, 0 for no match
marker_len(s, i) ==
    IF i = 1 /\ s[1] \in {"-", "*"} THEN 1 + ws_run(s, 2)
    ELSE LET d == digit_dot_len(s, i)
         IN  IF d > 0 THEN d + ws_run(s, i + d) ELSE 0

\* re.sub(r'^[-*]\s*|\d+\.\s*', '', s) from position i on: the text up to
\* the next match is kept, the match is removed, and the scan resumes after it
RECURSIVE re_sub_markers(_, _)
re_sub_markers(s, i) ==
    LET starts == {j \in i..Len(s) : marker_len(s, j) > 0}
    IN  IF starts = {} THEN SubSeq(s, i, Len(s))
        ELSE LET m == Min(starts)
             IN  SubSeq(s, i, m - 1) \o re_sub_markers(s, m + marker_len(s, m))

\* the body of the for-loop: the change a line yields, <<>> for none
change_of(raw) ==
    LET line == str_strip(raw)
    IN  IF is_bullet(line)
        THEN LET c == str_strip(re_sub_markers(line, 1))
             IN  IF c # <<>> /\ Len(c) > 5 THEN c ELSE <<>>
        ELSE <<>>

\* the lines of the body that yield a change, in order
kept_lines(b) ==
    IF b = <<>> \/ b[1] = <<>> THEN <<>>
    ELSE LET Kept(raw) == change_of(raw) # <<>>
         IN  SelectSeq(str_split_nl(b[1]), Kept)

parse_changes(b) ==
    LET kept == kept_lines(b)
    IN  [i \in 1..Len(kept) |-> change_of(kept[i])]

----------------------------------------------------------------------------
(* Change extractor: inputs and calls *)

MaxLines == 2       \* lines per generated body

Newline == <<"\n">>

ParserLines == {
    <<"-"," ","F","i","x","e","d"," ","c","r","a","s","h">>,
    <<"*"," ","A","d","d","e","d"," ","m","o","d","e">>,
    <<"1","."," ","U","p","d","a","t","e","d"," ","d","o","c","s">>,
    <<" "," ","-"," ","s","h","o","r","t"," ">>,
    <<"-"," ","a","b","c","d","e","f">>,
    <<"P","l","a","i","n"," ","h","e","a","d","i","n","g">>,
    <<"-"," ","v","1",".","2",".","3",".">>,
    <<"-"," ","B","u","m","p"," ","t","o"," ","2",".","1",".","0">>,
    <<>>,
    <<"1","2",".","R","e","l","e","a","s","e"," ","n","o","t","e","s">> }

\* None, the empty body, and bodies of 1..MaxLines lines
ParserInputs ==
    {<<>>} \cup
    {<<str_join(Newline, ls)>> :
        ls \in UNION {[1..n -> ParserLines] : n \in 1..MaxLines}}

ParserInit ==
    /\ body \in ParserInputs
    /\ changes = <<>>
    /\ change_lines = <<>>
    /\ parse_done = FALSE

\* the change extractor is not in use
ParserIdle ==
    /\ body = <<>>
    /\ changes = <<>>
    /\ change_lines = <<>>
    /\ parse_done = FALSE

\* one call parse_changes(body)
ParseChanges ==
    /\ ~ parse_done
    /\ changes' = parse_changes(body)
    /\ change_lines' = kept_lines(body)
    /\ parse_done' = TRUE
    /\ UNCHANGED body

----------------------------------------------------------------------------
(* digest.py: identify_try_this *)

try_patterns == <<
    Pat(FALSE, TRUE,  <<"s","h","o","r","t","c","u","t">>, <<>>, TRUE),
    Pat(FALSE, TRUE,  <<"c","o","m","m","a","n","d">>, <<>>, TRUE),
    Pat(FALSE, TRUE,  <<"s","e","t","t","i","n","g">>, <<>>, TRUE),
    Pat(FALSE, TRUE,  <<"m","o","d","e">>, <<>>, TRUE),
    Pat(FALSE, TRUE,  <<"a","u","t","o","c","o","m","p","l","e","t","e">>, <<>>, TRUE),
    Pat(FALSE, TRUE,  <<"n","a","v","i","g","a","t","i","o","n">>, <<>>, TRUE),
    Pat(FALSE, FALSE, <<"c","t","r","l","+">>, <<>>, FALSE),
    Pat(FALSE, FALSE, <<"c","m","d","+">>, <<>>, FALSE) >>

skip_patterns == <<
    Pat(TRUE,  FALSE, <<"f","i","x">>, <<>>, FALSE),
    Pat(FALSE, TRUE,  <<"i","n","t","e","r","n","a","l">>, <<>>, TRUE),
    Pat(FALSE, TRUE,  <<"r","e","f","a","c","t","o","r">>, <<>>, FALSE),
    Pat(FALSE, TRUE,  <<"t","y","p","o">>, <<>>, TRUE),
    Pat(FALSE, FALSE, <<"[","s","d","k","]">>, <<>>, FALSE),
    Pat(FALSE, FALSE, <<"[","i","d","e","]">>, <<>>, FALSE),
    Pat(FALSE, TRUE,  <<"d","e","p","r","e","c","a","t","i","o","n">>, <<>>, TRUE) >>

\* re.match(r"^(added?|changed?)\b", change_lower)
starts_added_changed(text) ==
    \/ re_search(Pat(TRUE, FALSE, <<"a","d","d","e">>, <<"d">>, TRUE), text)
    \/ re_search(Pat(TRUE, FALSE, <<"c","h","a","n","g","e">>, <<"d">>, TRUE), text)

\* the item passes both "continue" tests of the loop
is_eligible(c) ==
    /\ ~ any_search(skip_patterns, str_lower(c))
    /\ starts_added_changed(str_lower(c))

is_try_worthy(c) == any_search(try_patterns, str_lower(c))

\* the first for-loop of identify_try_this from item i on; acc is notable
RECURSIVE collect_notable(_, _, _)
collect_notable(cs, i, acc) ==
    IF i > Len(cs) THEN acc
    ELSE collect_notable(cs, i + 1,
            IF ~ is_eligible(cs[i]) THEN acc
            ELSE IF is_try_worthy(cs[i]) THEN <<cs[i]>> \o acc
                 ELSE Append(acc, cs[i]))

Ellipsis == <<".", ".", ".">>

\* a slip that keeps 80 characters before the "..."
truncate_top_keep80(notable_list) ==
    LET top == SubSeq(notable_list, 1, IF Len(notable_list) < 3 THEN Len(notable_list) ELSE 3)
    IN  [i \in 1..Len(top) |->
            IF Len(top[i]) > 80 THEN SubSeq(top[i], 1, 80) \o Ellipsis ELSE top[i]]

\* the second for-loop: top 3, long items cut to 77 characters plus "..."
truncate_top(notable_list) ==
    LET top == SubSeq(notable_list, 1, IF Len(notable_list) < 3 THEN Len(notable_list) ELSE 3)
    IN  [i \in 1..Len(top) |->
            IF Len(top[i]) > 80 THEN SubSeq(top[i], 1, 77) \o Ellipsis ELSE top[i]]

identify_try_this(cs) == truncate_top(collect_notable(cs, 1, <<>>))

----------------------------------------------------------------------------
(* "Try This" selector: inputs and calls *)

MaxChanges == 4     \* items per generated change list

AddedShortcut == <<"A","d","d","e","d"," ","s","h","o","r","t","c","u","t">>
ChangedCtrlK ==
    <<"C","h","a","n","g","e","d"," ","C","t","r","l","+","K"," ","b","i","n","d","i","n","g">>
AddedThemes == <<"A","d","d","e","d"," ","t","h","e","m","e","s">>
ChangedDefaults == <<"C","h","a","n","g","e","d"," ","d","e","f","a","u","l","t","s">>
AddedInternalCommand ==
    <<"A","d","d","e","d"," ","i","n","t","e","r","n","a","l"," ","c","o","m","m","a","n","d">>
ImprovedMode == <<"I","m","p","r","o","v","e","d"," ","m","o","d","e">>
\* 86 characters
AddedLongSetting ==
    <<"A","d","d","e","d"," ","s","e","t","t","i","n","g"," ","t","o"," ",
      "c","o","n","f","i","g","u","r","e"," ","t","h","e"," ","m","a","x","i","m","u","m"," ",
      "n","u","m","b","e","r"," ","o","f"," ","p","a","r","a","l","l","e","l"," ",
      "b","a","c","k","g","r","o","u","n","d"," ","t","a","s","k","s"," ",
      "p","e","r"," ","s","e","s","s","i","o","n">>

SelectorItems == {AddedShortcut, ChangedCtrlK, AddedThemes, ChangedDefaults,
                  AddedInternalCommand, ImprovedMode, AddedLongSetting}

SelectorInputs == UNION {[1..n -> SelectorItems] : n \in 0..MaxChanges}

SelectorInit ==
    /\ all_changes \in SelectorInputs
    /\ notable = <<>>
    /\ try_this = <<>>
    /\ select_done = FALSE

\* the selector is not in use
SelectorIdle ==
    /\ all_changes = <<>>
    /\ notable = <<>>
    /\ try_this = <<>>
    /\ select_done = FALSE

\* one call identify_try_this(all_changes)
IdentifyTryThis ==
    /\ ~ select_done
    /\ notable' = collect_notable(all_changes, 1, <<>>)
    /\ try_this' = truncate_top(notable')
    /\ select_done' = TRUE
    /\ UNCHANGED all_changes
----------------------------------------------------------------------------
(* Long texts.  A text that is only measured, sliced and split at newlines  *)
(* is the sequence of the lengths of its lines: <<3, 0, 5>> is a text of    *)
(* 3 characters, "\n", "\n", 5 characters; <<0>> is the empty string.       *)

RECURSIVE SumSeq(_)
SumSeq(t) == IF t = <<>> THEN 0 ELSE Head(t) + SumSeq(Tail(t))

\* len(text)
txt_len(t) == SumSeq(t) + Len(t) - 1

\* text[:n]
RECURSIVE txt_take(_, _)
txt_take(t, n) ==
    IF n >= txt_len(t) THEN t
    ELSE IF n <= t[1] THEN <<n>>
    ELSE <<t[1]>> \o txt_take(Tail(t), n - t[1] - 1)

\* text[n:], for n <= len(text)
RECURSIVE txt_drop(_, _)
txt_drop(t, n) ==
    IF n <= t[1] THEN <<t[1] - n>> \o Tail(t)
    ELSE txt_drop(Tail(t), n - t[1] - 1)

\* text + "..."
txt_add_ellipsis(t) == [t EXCEPT ![Len(t)] = @ + 3]

\* text.rfind("\n", 0, end): the 0-based index of the last newline before end, or -1
txt_rfind_nl(t, end) ==
    LET at == {SumSeq(SubSeq(t, 1, j)) + j - 1 : j \in 1..(Len(t) - 1)}
        found == {q \in at : q < end}
    IN  IF found = {} THEN -1 ELSE CHOOSE q \in found : \A r \in found : r <= q

\* text.lstrip("\n")
RECURSIVE txt_lstrip_nl(_)
txt_lstrip_nl(t) ==
    IF Len(t) > 1 /\ t[1] = 0 THEN txt_lstrip_nl(Tail(t)) ELSE t

EmptyText == <<0>>

----------------------------------------------------------------------------
(* digest.py: send_digest, from the composed digest to the post *)

\* a slip that cuts at the ceiling before the ellipsis is added
digest_payload_late_cut(d) ==
    IF txt_len(d) > 4000 THEN txt_add_ellipsis(txt_take(d, 4000)) ELSE d

\* the text field of the payload
digest_payload(d) ==
    IF txt_len(d) > 4000 THEN txt_add_ellipsis(txt_take(d, 3997)) ELSE d

----------------------------------------------------------------------------
(* bot.py: send_message *)

MAX_MSG_LEN == 3900

\* the while-loop that fills chunks
RECURSIVE split_chunks(_)
split_chunks(text) ==
    IF text = EmptyText THEN <<>>
    ELSE IF txt_len(text) <= MAX_MSG_LEN THEN <<text>>
    ELSE LET found == txt_rfind_nl(text, MAX_MSG_LEN)
             split_at == IF found = -1 THEN MAX_MSG_LEN ELSE found
         IN  <<txt_take(text, split_at)>>
             \o split_chunks(txt_lstrip_nl(txt_drop(text, split_at)))

----------------------------------------------------------------------------
(* Delivery: inputs and calls *)

MaxDigestLines == 2     \* lines per generated digest text
MaxReplyLines == 2      \* lines per generated reply text

DigestLineLens == {0, 100, 3896, 3897, 3997, 4000, 4001}
ReplyLineLens == {0, 1, 3899, 3900, 3901, 7801}

DigestInputs == UNION {[1..n -> DigestLineLens] : n \in 1..MaxDigestLines}
ReplyInputs == UNION {[1..n -> ReplyLineLens] : n \in 1..MaxReplyLines}

DeliveryInit ==
    /\ digest \in DigestInputs
    /\ posted = <<>>
    /\ send_done = FALSE
    /\ send_ok = FALSE
    /\ reply \in ReplyInputs
    /\ reply_posted = <<>>
    /\ reply_done = FALSE

\* delivery is not in use
DeliveryIdle ==
    /\ digest = EmptyText
    /\ posted = <<>>
    /\ send_done = FALSE
    /\ send_ok = FALSE
    /\ reply = EmptyText
    /\ reply_posted = <<>>
    /\ reply_done = FALSE

\* send_digest from the try block on: TelegramNotifier() raises ValueError
\* without credentials and nothing is posted (send_ok is then FALSE: the
\* call does not return True); otherwise the payload is posted and the post
\* or raise_for_status may raise a RequestException
SendDigest ==
    /\ ~ send_done
    /\ \E configured \in BOOLEAN, accepted \in BOOLEAN :
          /\ posted' = IF configured THEN <<digest_payload(digest)>> ELSE <<>>
          /\ send_ok' = (configured /\ accepted)
    /\ send_done' = TRUE
    /\ UNCHANGED <<digest, reply, reply_posted, reply_done>>

\* send_message(bot_token, chat_id, reply): the chunks are posted in order;
\* a post that raises ends the call (raised_at = 0: no post raises)
SendMessage ==
    /\ ~ reply_done
    /\ LET pieces == split_chunks(reply)
       IN  \E raised_at \in 0..Len(pieces) :
              reply_posted' = IF raised_at = 0 THEN pieces
                              ELSE SubSeq(pieces, 1, raised_at)
    /\ reply_done' = TRUE
    /\ UNCHANGED <<digest, posted, send_done, send_ok, reply>>

----------------------------------------------------------------------------
(* sources.py: the feed adapter.  An Optional value is <<>> for None and    *)
(* <<x>> for x.  A version identifier is represented by its rank in string *)
(* order; string contents of pages and bodies are TLA+ strings.            *)

None == <<>>
Some(x) == <<x>>

\* d.get(key, default)
dict_get(d, key, default) == IF key \in DOMAIN d THEN d[key] ELSE default

\* the default "" of r.get("tag_name", "") and "unknown" of r.get("tag_name", "unknown")
TAG_EMPTY == 0
TAG_UNKNOWN == 1

GITHUB_SOURCES ==
    ("claude-code" :> [repo |-> "anthropics/claude-code", name |-> "Claude Code",
                       url |-> "https://github.com/anthropics/claude-code/releases"]) @@
    ("pydantic-ai" :> [repo |-> "pydantic/pydantic-ai", name |-> "Pydantic AI",
                       url |-> "https://github.com/pydantic/pydantic-ai/releases"]) @@
    ("agent-deck" :>  [repo |-> "asheshgoplani/agent-deck", name |-> "Agent Deck",
                       url |-> "https://github.com/asheshgoplani/agent-deck/releases"])

WEB_SOURCES ==
    ("linear" :>     [url |-> "https://linear.app/changelog", name |-> "Linear"]) @@
    ("cursor" :>     [url |-> "https://cursor.com/changelog", name |-> "Cursor"]) @@
    ("granola" :>    [url |-> "https://www.granola.ai/docs/changelog", name |-> "Granola"]) @@
    ("claude-app" :> [url |-> "https://support.claude.com/en/articles/12138966-release-notes",
                      name |-> "Claude App"])

\* the empty content_hash of ReleaseData, and sha256(content.encode()).hexdigest()
NoHash == <<>>
sha256_hex(content) == <<"sha256", content>>

\* fetch_github_releases: the parsed JSON, [] on a RequestException
fetch_github_releases(response) == IF response.ok THEN response.json ELSE <<>>

\* a variant without raise_for_status: the body of an error answer is content
fetch_web_changelog_error_page(response) == Some(response.text)

\* fetch_web_changelog: the extracted text, None on a RequestException
fetch_web_changelog(response) == IF response.ok THEN Some(response.text) ELSE None

\* a slip that leaves content_hash of a web source at its default
get_release_data_nohash(source_key, seen_versions, response) ==
    IF source_key \in DOMAIN GITHUB_SOURCES THEN
        LET config == GITHUB_SOURCES[source_key]
            releases == fetch_github_releases(response)
            Unseen(r) == dict_get(r, "tag_name", TAG_EMPTY) \notin seen_versions
            fresh == IF seen_versions # {} THEN SelectSeq(releases, Unseen) ELSE releases
        IN  IF releases = <<>> \/ fresh = <<>> THEN None
            ELSE Some([source_name |-> config.name,
                       content |-> [i \in 1..Len(fresh) |->
                                       <<dict_get(fresh[i], "tag_name", TAG_UNKNOWN),
                                         dict_get(fresh[i], "body", "")>>],
                       url |-> config.url,
                       versions |-> [i \in 1..Len(fresh) |->
                                       dict_get(fresh[i], "tag_name", TAG_UNKNOWN)],
                       content_hash |-> NoHash])
    ELSE IF source_key \in DOMAIN WEB_SOURCES THEN
        LET config == WEB_SOURCES[source_key]
            content == fetch_web_changelog(response)
        IN  IF content = None \/ content[1] = "" THEN None
            ELSE Some([source_name |-> config.name,
                       content |-> content[1],
                       url |-> config.url,
                       versions |-> <<>>,
                       content_hash |-> NoHash])
    ELSE None

\* get_release_data(source_key, seen_versions), given the answer of the network
get_release_data(source_key, seen_versions, response) ==
    IF source_key \in DOMAIN GITHUB_SOURCES THEN
        LET config == GITHUB_SOURCES[source_key]
            releases == fetch_github_releases(response)
            Unseen(r) == dict_get(r, "tag_name", TAG_EMPTY) \notin seen_versions
            fresh == IF seen_versions # {} THEN SelectSeq(releases, Unseen) ELSE releases
        IN  IF releases = <<>> \/ fresh = <<>> THEN None
            ELSE Some([source_name |-> config.name,
                       content |-> [i \in 1..Len(fresh) |->
                                       <<dict_get(fresh[i], "tag_name", TAG_UNKNOWN),
                                         dict_get(fresh[i], "body", "")>>],
                       url |-> config.url,
                       versions |-> [i \in 1..Len(fresh) |->
                                       dict_get(fresh[i], "tag_name", TAG_UNKNOWN)],
                       content_hash |-> NoHash])
    ELSE IF source_key \in DOMAIN WEB_SOURCES THEN
        LET config == WEB_SOURCES[source_key]
            content == fetch_web_changelog(response)
        IN  IF content = None \/ content[1] = "" THEN None
            ELSE Some([source_name |-> config.name,
                       content |-> content[1],
                       url |-> config.url,
                       versions |-> <<>>,
                       content_hash |-> sha256_hex(content[1])])
    ELSE None

----------------------------------------------------------------------------
(* The tracking state, the novelty filter, the chunker and the delivery    *)
(* coordinator, as the design document describes them (sections 3, 4.4,    *)
(* 4.5, 4.6).                                                              *)

SEEN_CAP == 50
DIGEST_CEILING == 4000

\* the sources of a run, in their configured order
RunSources == <<"claude-code", "linear", "cursor">>

EmptySourceState == [seen_versions |-> {}, content_hash |-> NoHash]

\* a variant that never evicts
cap_versions_unbounded(versions) == versions

\* truncate to the SEEN_CAP greatest identifiers
cap_versions(versions) ==
    IF Cardinality(versions) <= SEEN_CAP THEN versions
    ELSE {v \in versions : Cardinality({w \in versions : w > v}) < SEEN_CAP}

\* the source has something new: the adapter returned a record, for a
\* version-identified source some version identifier of it is not in
\* seen_versions, and for a fingerprint-identified source the fingerprint
\* differs from the stored one
is_novel(state, d) ==
    /\ d # None
    /\ ~ (d[1].versions # <<>> /\ Range(d[1].versions) \subseteq state.seen_versions)
    /\ ~ (d[1].content_hash # NoHash /\ d[1].content_hash = state.content_hash)

\* the scratch state of a source after the novelty filter
updated_state(state, d) ==
    IF is_novel(state, d)
    THEN [seen_versions |-> cap_versions(state.seen_versions \cup Range(d[1].versions)),
          content_hash |-> d[1].content_hash]
    ELSE state

\* rendered length of the section of a source (category sections are capped)
section_len(d) ==
    IF d.versions # <<>>
    THEN (IF Len(d.versions) = 1 THEN 1300 ELSE 2600)
    ELSE (IF d.content = "A" THEN 2600 ELSE 1500)

\* a variant that composes the header alone when nothing is new
compose_empty_body(state, ds) ==
    LET Novel(k) == is_novel(state[k], ds[k])
        novel == SelectSeq(RunSources, Novel)
    IN  <<[part |-> "header", len |-> 40]>>
        \o [i \in 1..Len(novel) |-> [part |-> novel[i], len |-> section_len(ds[novel[i]][1])]]

\* the parts of the composed document: the header, then one section per
\* novel source, or the "all caught up" sentinel when there is none
compose(state, ds) ==
    LET Novel(k) == is_novel(state[k], ds[k])
        novel == SelectSeq(RunSources, Novel)
    IN  IF novel = <<>> THEN <<[part |-> "header", len |-> 40], [part |-> "caught-up", len |-> 60]>>
        ELSE <<[part |-> "header", len |-> 40]>>
             \o [i \in 1..Len(novel) |-> [part |-> novel[i], len |-> section_len(ds[novel[i]][1])]]

parts_len(ps) == SumSeq([i \in 1..Len(ps) |-> ps[i].len])

\* accumulate parts into the current chunk while it stays within the ceiling
RECURSIVE pack_chunks(_, _)
pack_chunks(parts, current) ==
    IF parts = <<>> THEN (IF current = <<>> THEN <<>> ELSE <<current>>)
    ELSE IF current # <<>> /\ parts_len(current) + Head(parts).len > DIGEST_CEILING
         THEN <<current>> \o pack_chunks(Tail(parts), <<Head(parts)>>)
         ELSE pack_chunks(Tail(parts), Append(current, Head(parts)))

\* a variant that commits as soon as a chunk has been delivered
store_after_send_eager(ok, last) == IF ok THEN scratch ELSE store

\* the durable state after the send of a chunk: written only when the last
\* chunk has been delivered
store_after_send(ok, last) == IF ok /\ last THEN scratch ELSE store

----------------------------------------------------------------------------
(* Pipeline runs: inputs and steps *)

Release(tag) == [tag_name |-> tag, body |-> "notes"]
Untagged == [body |-> "notes"]

\* ten releases newer than everything else (per_page = 10)
TenNewReleases == [i \in 1..10 |-> Release(111 - i)]

\* an answer that is not ok made requests raise a RequestException: the
\* request timed out, or the body (empty, or not JSON) could not be decoded
GithubResponses == {
    [ok |-> FALSE, error |-> "Timeout", json |-> <<>>],
    [ok |-> FALSE, error |-> "JSONDecodeError", json |-> <<>>],
    [ok |-> TRUE, json |-> <<>>],
    [ok |-> TRUE, json |-> <<Release(12), Release(11)>>],
    [ok |-> TRUE, json |-> <<Release(13), Release(12)>>],
    [ok |-> TRUE, json |-> <<Untagged>>],
    [ok |-> TRUE, json |-> TenNewReleases] }

\* text is what get_text extracts from the body of the answer; a 503 answer
\* has a body, and raise_for_status raises for it
WebResponses == {
    [ok |-> FALSE, error |-> "Timeout", text |-> ""],
    [ok |-> FALSE, error |-> "HTTPError", text |-> "Service Unavailable"],
    [ok |-> TRUE, text |-> ""],
    [ok |-> TRUE, text |-> "A"],
    [ok |-> TRUE, text |-> "B"] }

ResponsesOf(k) == IF k \in DOMAIN GITHUB_SOURCES THEN GithubResponses ELSE WebResponses

NoResponse == [ok |-> FALSE]

\* the tracking state before the first run, or after many runs of claude-code
InitialStores == {
    [k \in Range(RunSources) |-> EmptySourceState],
    [k \in Range(RunSources) |->
        IF k = "claude-code" THEN [seen_versions |-> 51..100, content_hash |-> NoHash]
        ELSE IF k = "linear" THEN [seen_versions |-> {}, content_hash |-> sha256_hex("A")]
        ELSE EmptySourceState] }

\* no run came before
NoRun == "none"

\* no source of the run has novel content
NothingNew == \A k \in Range(RunSources) : ~ is_novel(loaded[k], data[k])

RunInit ==
    /\ store \in InitialStores
    /\ pc = "idle"
    /\ loaded = store
    /\ fetched = [k \in Range(RunSources) |-> NoResponse]
    /\ data = [k \in Range(RunSources) |-> None]
    /\ scratch = store
    /\ chunks = <<>>
    /\ attempts = <<>>
    /\ run_result = "none"
    /\ previous = NoRun

\* no pipeline run
RunIdle ==
    /\ store = [k \in Range(RunSources) |-> EmptySourceState]
    /\ pc = "idle"
    /\ loaded = store
    /\ fetched = [k \in Range(RunSources) |-> NoResponse]
    /\ data = [k \in Range(RunSources) |-> None]
    /\ scratch = store
    /\ chunks = <<>>
    /\ attempts = <<>>
    /\ run_result = "none"
    /\ previous = NoRun

\* start of a run: load the state, fetch every source, filter, compose, chunk
Generate ==
    /\ pc = "idle"
    /\ \E r1 \in ResponsesOf(RunSources[1]), r2 \in ResponsesOf(RunSources[2]),
          r3 \in ResponsesOf(RunSources[3]) :
          LET responses == (RunSources[1] :> r1) @@ (RunSources[2] :> r2) @@ (RunSources[3] :> r3)
              ds == [k \in Range(RunSources) |->
                        get_release_data(k, store[k].seen_versions, responses[k])]
          IN  /\ fetched' = responses
              /\ data' = ds
              /\ scratch' = [k \in Range(RunSources) |-> updated_state(store[k], ds[k])]
              /\ chunks' = pack_chunks(compose(store, ds), <<>>)
    /\ loaded' = store
    /\ attempts' = <<>>
    /\ run_result' = "running"
    /\ pc' = "delivering"
    /\ UNCHANGED <<store, previous>>

\* the transport accepts the next chunk; after the last one the state is committed
DeliverChunk ==
    /\ pc = "delivering"
    /\ LET last == (Len(attempts) + 1 = Len(chunks))
       IN  /\ store' = store_after_send(TRUE, last)
           /\ pc' = IF last THEN "done" ELSE "delivering"
           /\ run_result' = IF last THEN "ok" ELSE "running"
    /\ attempts' = Append(attempts, TRUE)
    /\ UNCHANGED <<loaded, fetched, data, scratch, chunks, previous>>

\* the transport fails on the next chunk: the run ends and reports failure
DeliverFail ==
    /\ pc = "delivering"
    /\ store' = store_after_send(FALSE, Len(attempts) + 1 = Len(chunks))
    /\ pc' = "done"
    /\ run_result' = "failed"
    /\ attempts' = Append(attempts, FALSE)
    /\ UNCHANGED <<loaded, fetched, data, scratch, chunks, previous>>

\* the process ends: only the persisted state survives until the next run
Exit ==
    /\ pc = "done"
    /\ pc' = "idle"
    /\ loaded' = store
    /\ fetched' = [k \in Range(RunSources) |-> NoResponse]
    /\ data' = [k \in Range(RunSources) |-> None]
    /\ scratch' = store
    /\ chunks' = <<>>
    /\ attempts' = <<>>
    /\ run_result' = "none"
    /\ previous' = IF NothingNew /\ run_result = "ok" THEN "caught-up" ELSE "other"
    /\ UNCHANGED store

----------------------------------------------------------------------------
(* digest.py: fetch_releases, escape_markdown, generate_summary,            *)
(* format_digest.  The characters outside ASCII of the string literals     *)
(* (the emoji, the arrow, the bullet) take no part in any test of the      *)
(* code; each is written "~".                                              *)

NonAscii(n) == [i \in 1..n |-> "~"]

DigitChars == <<"0","1","2","3","4","5","6","7","8","9">>

\* str(n) for n >= 0
RECURSIVE str_int(_)
str_int(n) ==
    IF n < 10 THEN <<DigitChars[n + 1]>>
    ELSE str_int(n \div 10) \o <<DigitChars[(n % 10) + 1]>>

\* str.rstrip()
str_rstrip(s) ==
    LET inner == {i \in 1..Len(s) : s[i] \notin Whitespace}
    IN  IF inner = {} THEN <<>>
        ELSE SubSeq(s, 1, CHOOSE j \in inner : \A i \in inner : i <= j)

\* text.replace(char, '\\' + char) from position i on: the text up to the
\* next occurrence is kept and the occurrence is replaced
RECURSIVE str_escape_char(_, _, _)
str_escape_char(text, char, i) ==
    LET found == {j \in i..Len(text) : text[j] = char}
    IN  IF found = {} THEN SubSeq(text, i, Len(text))
        ELSE LET m == Min(found)
             IN  SubSeq(text, i, m - 1) \o <<"\\", char>> \o str_escape_char(text, char, m + 1)

\* the characters escape_markdown escapes, in the order of its loop
QUOTE_CHARS == <<"`", "'">>
BACKQUOTE == QUOTE_CHARS[1]
MARKDOWN_SPECIAL == <<"_", "*", "[", "]", BACKQUOTE>>

\* the loop of escape_markdown from the k-th character of the list on
RECURSIVE escape_from(_, _)
escape_from(text, k) ==
    IF k > Len(MARKDOWN_SPECIAL) THEN text
    ELSE escape_from(str_escape_char(text, MARKDOWN_SPECIAL[k], 1), k + 1)

escape_markdown(text) == escape_from(text, 1)

\* fetch_releases(days): the releases published within the last days days,
\* [] on a RequestException (a time-out, an HTTP error status, a body that
\* is not JSON).  published_age is now minus published_at, in days.
fetch_releases(response, days) ==
    IF ~ response.ok THEN <<>>
    ELSE LET Recent(release) == release.published_age < days
         IN  SelectSeq(response.json, Recent)

\* the loop over releases that collects all_changes, from release i on
RECURSIVE collect_changes(_, _)
collect_changes(releases_list, i) ==
    IF i > Len(releases_list) THEN <<>>
    ELSE parse_changes(<<dict_get(releases_list[i], "body", <<>>)>>)
         \o collect_changes(releases_list, i + 1)

\* the items of cs whose category is c, in order; cats[i] is the category of cs[i]
RECURSIVE items_of(_, _, _, _)
items_of(cs, cats, c, i) ==
    IF i > Len(cs) THEN <<>>
    ELSE (IF cats[i] = c THEN <<cs[i]>> ELSE <<>>) \o items_of(cs, cats, c, i + 1)

\* categorize_changes: category -> list of changes, for the categories that occur
categorize_changes(cs) ==
    LET cats == [i \in 1..Len(cs) |-> categorize_change(cs[i])]
    IN  [c \in Range(cats) |-> items_of(cs, cats, c, 1)]

generate_summary(releases_list, changes_list) ==
    IF releases_list = <<>> THEN <<"N","o"," ","n","e","w"," ","C","l","a","u","d","e"," ","C","o","d","e"," ","r","e","l","e","a","s","e","s"," ","t","h","i","s"," ","w","e","e","k",".">>
    ELSE LET versions == [i \in 1..Len(releases_list) |-> releases_list[i].tag_name]
             version_text ==
                 IF Len(versions) = 1 THEN <<"v","e","r","s","i","o","n"," ">> \o versions[1]
                 ELSE <<"v","e","r","s","i","o","n","s"," ">> \o versions[Len(versions)] \o <<" ">> \o NonAscii(3)
                      \o <<" ">> \o versions[1]
         IN  <<"C","l","a","u","d","e"," ","C","o","d","e"," ">> \o version_text \o <<" ">> \o NonAscii(3) \o <<" ">>
             \o str_int(Len(changes_list)) \o <<" ","c","h","a","n","g","e","s">>

DIGEST_HEADER == NonAscii(5) \o <<" ","*","C","l","a","u","d","e"," ","C","o","d","e"," ","M","o","r","n","i","n","g"," ","D","i","g","e","s","t","*">>

CAUGHT_UP == <<"N","o"," ","n","e","w"," ","r","e","l","e","a","s","e","s"," ","i","n"," ","t","h","e"," ","p","a","s","t"," ","w","e","e","k","."," ","Y","o","u","'","r","e"," ","a","l","l"," ","c","a","u","g","h","t"," ","u","p","!">>

\* a variant with the categories in the order of the data model's listing
category_order_data_model ==
    <<"New Features", "Improvements", "Bug Fixes", "Performance",
      "IDE & Editor", "Documentation", "Changes", "Other Changes">>

category_order ==
    <<"New Features", "Improvements", "IDE & Editor", "Performance",
      "Bug Fixes", "Changes", "Documentation", "Other Changes">>

emoji_map ==
    [c \in Range(category_order) |->
        CASE c = "New Features"  -> NonAscii(3)
          [] c = "Bug Fixes"     -> NonAscii(3)
          [] c = "Improvements"  -> NonAscii(4)
          [] c = "IDE & Editor"  -> NonAscii(6)
          [] c = "Performance"   -> NonAscii(3)
          [] c = "Documentation" -> NonAscii(4)
          [] c = "Changes"       -> NonAscii(4)
          [] c = "Other Changes" -> NonAscii(3)]

\* the characters of a category name
category_text ==
    [c \in Range(category_order) |->
        CASE c = "New Features"  -> <<"N","e","w"," ","F","e","a","t","u","r","e","s">>
          [] c = "Bug Fixes"     -> <<"B","u","g"," ","F","i","x","e","s">>
          [] c = "Improvements"  -> <<"I","m","p","r","o","v","e","m","e","n","t","s">>
          [] c = "IDE & Editor"  -> <<"I","D","E"," ","&"," ","E","d","i","t","o","r">>
          [] c = "Performance"   -> <<"P","e","r","f","o","r","m","a","n","c","e">>
          [] c = "Documentation" -> <<"D","o","c","u","m","e","n","t","a","t","i","o","n">>
          [] c = "Changes"       -> <<"C","h","a","n","g","e","s">>
          [] c = "Other Changes" -> <<"O","t","h","e","r"," ","C","h","a","n","g","e","s">>]

max_per_category == 8

\* a variant that counts the shown items into the elision note
category_lines_count_all(category, items) ==
    LET shown == SubSeq(items, 1, IF Len(items) < max_per_category THEN Len(items)
                                  ELSE max_per_category)
        hidden == Len(items)
    IN  <<emoji_map[category] \o <<" ","*">> \o category_text[category] \o <<"*">>>>
        \o [i \in 1..Len(shown) |->
               <<" "," ">> \o NonAscii(3) \o <<" ">> \o
               escape_markdown(IF Len(shown[i]) > 100
                               THEN SubSeq(shown[i], 1, 97) \o Ellipsis ELSE shown[i])]
        \o (IF hidden > 0
            THEN <<<<" "," ","_",".",".",".","a","n","d"," ">> \o str_int(hidden) \o <<" ","m","o","r","e","_">>>> ELSE <<>>)
        \o <<<<>>>>

\* the lines that one pass of the loop over category_order appends
category_lines(category, items) ==
    LET shown == SubSeq(items, 1, IF Len(items) < max_per_category THEN Len(items)
                                  ELSE max_per_category)
        hidden == Len(items) - Len(shown)
    IN  <<emoji_map[category] \o <<" ","*">> \o category_text[category] \o <<"*">>>>
        \o [i \in 1..Len(shown) |->
               <<" "," ">> \o NonAscii(3) \o <<" ">> \o
               escape_markdown(IF Len(shown[i]) > 100
                               THEN SubSeq(shown[i], 1, 97) \o Ellipsis ELSE shown[i])]
        \o (IF hidden > 0
            THEN <<<<" "," ","_",".",".",".","a","n","d"," ">> \o str_int(hidden) \o <<" ","m","o","r","e","_">>>> ELSE <<>>)
        \o <<<<>>>>

\* the loop over category_order from position i on
RECURSIVE all_category_lines(_, _, _)
all_category_lines(order, by_category, i) ==
    IF i > Len(order) THEN <<>>
    ELSE (IF order[i] \in DOMAIN by_category
          THEN category_lines(order[i], by_category[order[i]]) ELSE <<>>)
         \o all_category_lines(order, by_category, i + 1)

\* the list lines of format_digest, for a non-empty list of releases
digest_lines(releases_list, enrichment_text) ==
    LET changes_list == collect_changes(releases_list, 1)
        summary == generate_summary(releases_list, changes_list)
        by_category == categorize_changes(changes_list)
        tries == identify_try_this(changes_list)
    IN  <<DIGEST_HEADER, <<>>, NonAscii(4) \o <<" ">> \o summary, <<>>>>
        \o (IF tries # <<>>
            THEN <<NonAscii(4) \o <<" ","*","T","r","y"," ","T","h","i","s","*">>>>
                 \o [i \in 1..Len(tries) |->
                        <<" "," ">> \o NonAscii(3) \o <<" ">> \o escape_markdown(tries[i])]
                 \o <<<<>>>>
            ELSE <<>>)
        \o all_category_lines(category_order, by_category, 1)
        \o (IF enrichment_text # <<>> THEN <<str_rstrip(enrichment_text)>> ELSE <<>>)
        \o <<<<"[","V","i","e","w"," ","o","n"," ","G","i","t","H","u","b","]","(">> \o releases_list[1].html_url \o <<")">>>>

format_digest(releases_list, enrichment_text) ==
    IF releases_list = <<>> THEN DIGEST_HEADER \o <<"\n","\n">> \o CAUGHT_UP
    ELSE str_join(Newline, digest_lines(releases_list, enrichment_text))

\* send_digest: the text of the payload
cut_digest(text) ==
    IF Len(text) > 4000 THEN SubSeq(text, 1, 3997) \o Ellipsis ELSE text

\* main: sys.exit(0 if success else 1)
exit_code(ok) == IF ok THEN 0 ELSE 1

\* main: an exception that leaves send_digest is not caught by main, and the
\* interpreter ends the process with status 1
uncaught_exit == 1

----------------------------------------------------------------------------
(* digest.py command line: inputs and steps of main, preview_digest and     *)
(* send_digest                                                              *)

MaxItems == 10      \* changes of one category in a generated release body

DEFAULT_DAYS == 7

Pad(n) == [i \in 1..n |-> "x"]

TagUrl(tag) == <<"h","t","t","p","s",":","/","/","g","i","t","h","u","b",".","c","o","m","/","a","n","t","h","r","o","p","i","c","s","/","c","l","a","u","d","e","-","c","o","d","e","/","r","e","l","e","a","s","e","s","/","t","a","g","/">> \o tag

ApiRelease(tag, age, text) ==
    [tag_name |-> tag, published_age |-> age, html_url |-> TagUrl(tag), body |-> text]

\* one change of every category, "[" and "_" and "`" among the characters
MixedLines == <<
    <<"#","#"," ","H","i","g","h","l","i","g","h","t","s">>,
    <<"-"," ","F","i","x","e","d"," ","c","r","a","s","h"," ","o","n"," ","s","t","a","r","t","u","p">>,
    (<<"-"," ","A","d","d","e","d"," ">> \o <<BACKQUOTE>> \o <<"-","-","v","e","r","b","o","s","e">> \o <<BACKQUOTE>> \o <<" ","m","o","d","e">>),
    <<"-"," ","I","m","p","r","o","v","e","d"," ","e","r","r","o","r","_","m","e","s","s","a","g","e","s">>,
    <<"-"," ","[","V","S","C","o","d","e","]"," ","R","e","w","o","r","k","e","d"," ","s","i","d","e"," ","p","a","n","e","l">>,
    <<"-"," ","F","a","s","t","e","r"," ","f","i","l","e"," ","s","e","a","r","c","h">>,
    <<"-"," ","C","h","a","n","g","e","d"," ","d","e","f","a","u","l","t"," ","m","o","d","e","l">>,
    <<"-"," ","T","u","t","o","r","i","a","l"," ","f","o","r"," ","h","o","o","k","s">>,
    <<"-"," ","R","e","m","o","v","e","d"," ","l","e","g","a","c","y"," ","f","l","a","g">> >>

MixedBody == str_join(Newline, MixedLines)

\* n changes of the category New Features, numbered in order
ManyBody(n) ==
    str_join(Newline, [i \in 1..n |-> <<"-"," ","A","d","d","e","d"," ","o","p","t","i","o","n"," ","n","u","m","b","e","r"," ">> \o str_int(i)])

\* one change of 120 characters
LongItemBody == <<"*"," ","C","h","a","n","g","e","d"," ">> \o Pad(112)

\* eight changes of 100 characters in each of five categories
BigBody ==
    str_join(Newline,
        [i \in 1..40 |->
            <<"-"," ">> \o
            (CASE i % 5 = 0 -> <<"A","d","d","e","d"," ">> \o Pad(94)
               [] i % 5 = 1 -> <<"I","m","p","r","o","v","e","d"," ">> \o Pad(91)
               [] i % 5 = 2 -> <<"F","i","x","e","d"," ">> \o Pad(94)
               [] i % 5 = 3 -> <<"C","h","a","n","g","e","d"," ">> \o Pad(92)
               [] i % 5 = 4 -> <<"R","e","m","o","v","e","d"," ">> \o Pad(92))])

ApiFailure(kind) == [ok |-> FALSE, error |-> kind, json |-> <<>>]

ApiOk(list) == [ok |-> TRUE, error |-> "", json |-> list]

\* what the GitHub API answers: a time-out, an error status, a body that is
\* empty or not JSON, or a list of releases, newest first
ApiAnswers ==
    {ApiFailure(kind) : kind \in {"Timeout", "HTTPError", "JSONDecodeError"}}
    \cup {ApiOk(<<ApiRelease(<<"v","2",".","1",".","0">>, 2, ManyBody(n))>>) : n \in 0..MaxItems}
    \cup {ApiOk(<<>>),
          ApiOk(<<ApiRelease(<<"v","2",".","0",".","0">>, 10, MixedBody)>>),
          ApiOk(<<ApiRelease(<<"v","2",".","1",".","0">>, 1, MixedBody)>>),
          ApiOk(<<ApiRelease(<<"v","2",".","1",".","1">>, 1, ManyBody(9)),
                  ApiRelease(<<"v","2",".","1",".","0">>, 3, MixedBody),
                  ApiRelease(<<"v","2",".","0",".","0">>, 10, ManyBody(3))>>),
          ApiOk(<<[tag_name |-> <<"v","2",".","1",".","2">>, published_age |-> 0,
                   html_url |-> TagUrl(<<"v","2",".","1",".","2">>)]>>),
          ApiOk(<<ApiRelease(<<"v","2",".","1",".","3">>, 0, LongItemBody)>>),
          ApiOk(<<ApiRelease(<<"v","2",".","2",".","0">>, 0, BigBody)>>)}

\* what enrich_digest returns: "" or the formatted community section
CommunitySection ==
    NonAscii(4) \o <<" ","*","C","o","m","m","u","n","i","t","y"," ","B","u","z","z","*","\n"," "," ">> \o NonAscii(3) \o <<" ","@","b","c","h","e","r","n","y",":"," ","n","e","w"," ","p","l","u","g","i","n","\n">>

EnrichmentOutcomes == {<<>>, CommunitySection}

DigestInit ==
    /\ preview_only \in BOOLEAN
    /\ enrich \in BOOLEAN
    /\ has_credentials \in BOOLEAN
    /\ api \in ApiAnswers
    /\ cli_pc = "main"
    /\ cli_releases = <<>>
    /\ enrichment = <<>>
    /\ categorized = <<>>
    /\ digest_text = <<>>
    /\ payload_text = None
    /\ post_outcome = "none"
    /\ events = <<>>
    /\ report = "none"
    /\ success = None
    /\ exit_status = None

\* the command line is not in use
DigestIdle ==
    /\ preview_only = FALSE
    /\ enrich = FALSE
    /\ has_credentials = FALSE
    /\ api = ApiOk(<<>>)
    /\ cli_pc = "main"
    /\ cli_releases = <<>>
    /\ enrichment = <<>>
    /\ categorized = <<>>
    /\ digest_text = <<>>
    /\ payload_text = None
    /\ post_outcome = "none"
    /\ events = <<>>
    /\ report = "none"
    /\ success = None
    /\ exit_status = None

\* releases = fetch_releases(days=days), in preview_digest and in send_digest
FetchReleases ==
    /\ cli_pc = "main"
    /\ cli_releases' = fetch_releases(api, DEFAULT_DAYS)
    /\ events' = Append(events, "fetch")
    /\ cli_pc' = "fetched"
    /\ UNCHANGED <<preview_only, enrich, has_credentials, api, enrichment, categorized,
                   digest_text, payload_text, post_outcome, report, success, exit_status>>

\* enrichment = enrich_digest(versions), when enrich and releases
EnrichDigest ==
    /\ cli_pc = "fetched"
    /\ enrich /\ cli_releases # <<>>
    /\ \E text \in EnrichmentOutcomes : enrichment' = text
    /\ events' = Append(events, "enrich")
    /\ cli_pc' = "enriched"
    /\ UNCHANGED <<preview_only, enrich, has_credentials, api, cli_releases, categorized,
                   digest_text, payload_text, post_outcome, report, success, exit_status>>

\* digest = format_digest(releases, enrichment); preview mode prints it and
\* main returns
FormatDigest ==
    /\ \/ cli_pc = "enriched"
       \/ cli_pc = "fetched" /\ ~ (enrich /\ cli_releases # <<>>)
    /\ digest_text' = format_digest(cli_releases, enrichment)
    /\ categorized' = IF cli_releases = <<>> THEN <<>>
                      ELSE categorize_changes(collect_changes(cli_releases, 1))
    /\ cli_pc' = IF preview_only THEN "exited" ELSE "formatted"
    /\ exit_status' = IF preview_only THEN Some(0) ELSE exit_status
    /\ UNCHANGED <<preview_only, enrich, has_credentials, api, cli_releases, enrichment,
                   payload_text, post_outcome, events, report, success>>

\* the try block of send_digest and the sys.exit of main. TelegramNotifier()
\* raises ValueError without credentials; the handler search then evaluates
\* "except requests.RequestException" first, and requests is a local name of
\* send_digest (the "import requests" inside the try block, not yet
\* executed), so the search itself raises UnboundLocalError: nothing is
\* returned, nothing of the "Telegram not configured" branch is printed and
\* the interpreter ends with the status of an uncaught exception. With
\* credentials the payload is posted, and the post or raise_for_status may
\* raise a RequestException, which is caught
SendPayload ==
    /\ cli_pc = "formatted"
    /\ IF ~ has_credentials
       THEN /\ events' = Append(events, "notifier")
            /\ payload_text' = None
            /\ post_outcome' = "none"
            /\ report' = "UnboundLocalError"
            /\ success' = None
            /\ exit_status' = Some(uncaught_exit)
       ELSE \E accepted \in BOOLEAN :
            /\ events' = events \o <<"notifier", "post">>
            /\ payload_text' = Some(cut_digest(digest_text))
            /\ post_outcome' = IF accepted THEN "accepted" ELSE "refused"
            /\ report' = IF accepted THEN "Digest sent to Telegram!" ELSE "Failed to send"
            /\ success' = Some(accepted)
            /\ exit_status' = Some(exit_code(accepted))
    /\ cli_pc' = "exited"
    /\ UNCHANGED <<preview_only, enrich, has_credentials, api, cli_releases, enrichment,
                   categorized, digest_text>>

----------------------------------------------------------------------------
(* bot.py: the poll loop of main, load_offset, save_offset, get_updates and *)
(* handle_message.  The Telegram server keeps the updates that have not    *)
(* been confirmed; getUpdates with an offset confirms every update below   *)
(* the offset and returns the ones from the offset on.                     *)

MaxUpdates == 2     \* updates that arrive at the server
MaxRetries == 2     \* poll errors in a row

BACKOFF_BASE == 2
BACKOFF_MAX == 60

\* the id of the first update, chosen so that the offsets cross from one
\* digit to two
FIRST_UPDATE_ID == 8

\* the configured chat_id (TELEGRAM_CHAT_ID is a string) and another chat
CHAT_ID == <<"4", "2">>
AUTHORIZED_CHAT == 42
OTHER_CHAT == 7

FixTypoText == <<"f","i","x"," ","t","h","e"," ","t","y","p","o">>
ResetText == <<" ","/","R","e","s","e","t","\n">>
RESET_COMMAND == <<"/","r","e","s","e","t">>

\* the message of an update: from the authorized chat with a request, with
\* the reset command or without text (a photo), from another chat, or no
\* message at all
UpdateMessages == {
    [message |-> [chat |-> [id |-> AUTHORIZED_CHAT], text |-> FixTypoText]],
    [message |-> [chat |-> [id |-> AUTHORIZED_CHAT], text |-> ResetText]],
    [message |-> [chat |-> [id |-> AUTHORIZED_CHAT]]],
    [message |-> [chat |-> [id |-> OTHER_CHAT], text |-> FixTypoText]],
    [edited_message |-> [chat |-> [id |-> AUTHORIZED_CHAT], text |-> FixTypoText]] }

\* int(text) of a string of digits
RECURSIVE int_of(_)
int_of(s) ==
    IF s = <<>> THEN 0
    ELSE 10 * int_of(SubSeq(s, 1, Len(s) - 1))
         + (CHOOSE d \in 0..9 : DigitChars[d + 1] = s[Len(s)])

\* a variant of save_offset whose write does not reach the file
save_offset_lost(file, n) == file

\* save_offset: the content of the offset file after the write
save_offset(file, n) == Some(str_int(n))

\* load_offset: None without a file or when the content is not an integer
load_offset(file) ==
    IF file = None THEN None
    ELSE LET text == str_strip(file[1])
         IN  IF text # <<>> /\ \A i \in 1..Len(text) : text[i] \in Digits
             THEN Some(int_of(text)) ELSE None

\* get_updates: the updates the server returns for the offset
get_updates(server_updates, confirmed, poll_offset) ==
    LET from == IF poll_offset = None THEN confirmed + 1
                ELSE IF poll_offset[1] > confirmed + 1 THEN poll_offset[1] ELSE confirmed + 1
    IN  SelectSeq(server_updates, LAMBDA u : u.update_id >= from)

\* the updates the server has confirmed after a poll with the offset
confirmed_after(confirmed, poll_offset) ==
    IF poll_offset # None /\ poll_offset[1] - 1 > confirmed THEN poll_offset[1] - 1
    ELSE confirmed

\* msg_chat_id and text of the loop body
msg_chat_id(update) ==
    LET msg == dict_get(update, "message", <<>>)
        chat == dict_get(msg, "chat", <<>>)
    IN  IF "id" \in DOMAIN chat THEN str_int(chat.id) ELSE <<>>

msg_text(update) == dict_get(dict_get(update, "message", <<>>), "text", <<>>)

\* a variant that lets every chat through
is_authorized_any(update) == TRUE

\* the test that is not the silent rejection
is_authorized(update) == msg_chat_id(update) = CHAT_ID

\* the delay of the back-off after a poll error
backoff_delay(n) ==
    IF BACKOFF_BASE ^ (n + 1) < BACKOFF_MAX THEN BACKOFF_BASE ^ (n + 1) ELSE BACKOFF_MAX

BotInit ==
    /\ tg_updates = <<>>
    /\ tg_confirmed = FIRST_UPDATE_ID - 1
    /\ offset_file = None
    /\ session_file = None
    /\ offset = None
    /\ retries = 0
    /\ delay = 0
    /\ bot_pc = "poll"
    /\ batch = <<>>
    /\ dequeued = <<>>
    /\ handled = <<>>
    /\ claude_runs = <<>>
    /\ commits = <<>>
    /\ replies = <<>>
    /\ interrupted = {}

\* the bot is not running
BotIdle ==
    /\ tg_updates = <<>>
    /\ tg_confirmed = FIRST_UPDATE_ID - 1
    /\ offset_file = None
    /\ session_file = None
    /\ offset = None
    /\ retries = 0
    /\ delay = 0
    /\ bot_pc = "poll"
    /\ batch = <<>>
    /\ dequeued = <<>>
    /\ handled = <<>>
    /\ claude_runs = <<>>
    /\ commits = <<>>
    /\ replies = <<>>
    /\ interrupted = {}

\* somebody sends a message: the server queues an update with the next id
NewUpdate ==
    /\ Len(tg_updates) < MaxUpdates
    /\ \E m \in UpdateMessages :
          tg_updates' = Append(tg_updates,
                               m @@ [update_id |-> FIRST_UPDATE_ID + Len(tg_updates)])
    /\ UNCHANGED <<tg_confirmed, offset_file, session_file, offset, retries, delay, bot_pc,
                   batch, dequeued, handled, claude_runs, commits, replies, interrupted>>

\* updates = get_updates(bot_token, offset); retries = 0
PollUpdates ==
    /\ bot_pc = "poll"
    /\ tg_confirmed' = confirmed_after(tg_confirmed, offset)
    /\ batch' = get_updates(tg_updates, tg_confirmed, offset)
    /\ retries' = 0
    /\ bot_pc' = IF batch' = <<>> THEN "poll" ELSE "batch"
    /\ UNCHANGED <<tg_updates, offset_file, session_file, offset, delay, dequeued, handled,
                   claude_runs, commits, replies, interrupted>>

\* get_updates raises: the outer except sleeps and counts the retry
PollError ==
    /\ bot_pc = "poll"
    /\ retries < MaxRetries
    /\ delay' = backoff_delay(retries)
    /\ retries' = retries + 1
    /\ UNCHANGED <<tg_updates, tg_confirmed, offset_file, session_file, offset, bot_pc, batch,
                   dequeued, handled, claude_runs, commits, replies, interrupted>>

\* the loop body up to the call of handle_message: the offset is advanced
\* and saved, then an update of another chat or without text is skipped
DequeueUpdate ==
    /\ bot_pc = "batch"
    /\ LET update == Head(batch)
           accepted == is_authorized(update) /\ msg_text(update) # <<>>
       IN  /\ offset' = Some(update.update_id + 1)
           /\ offset_file' = save_offset(offset_file, update.update_id + 1)
           /\ dequeued' = Append(dequeued, update.update_id)
           /\ handled' = IF accepted THEN Append(handled, update.update_id) ELSE handled
           /\ batch' = IF accepted THEN batch ELSE Tail(batch)
           /\ bot_pc' = IF accepted THEN "handling"
                        ELSE IF Tail(batch) = <<>> THEN "poll" ELSE "batch"
    /\ UNCHANGED <<tg_updates, tg_confirmed, session_file, retries, delay, claude_runs,
                   commits, replies, interrupted>>

\* the entries of the reply log
Reply(update, what) == [update_id |-> update.update_id, text |-> what]

\* handle_message and the except clause around it.  raised_at is the step of
\* handle_message that raises: "send" the first send_message ("Session
\* cleared" or "Processing..."), "commit" git add or git commit, "reply" the
\* last send_message.  A raise is answered with the "Error" message, and when
\* that post raises too (error_reply_raises) the outer except ends the batch
\* and backs off
HandleMessage ==
    /\ bot_pc = "handling"
    /\ LET update == Head(batch)
           text == msg_text(update)
           is_reset == str_lower(str_strip(text)) = RESET_COMMAND
       IN  \E raised_at \in {"none", "send", "commit", "reply"} :
           \E fresh_session \in BOOLEAN, has_changes \in BOOLEAN, error_reply_raises \in BOOLEAN :
              LET started == ~ is_reset /\ raised_at # "send"
                  committed == started /\ has_changes /\ raised_at # "commit"
                  error_sent == raised_at # "none" /\ ~ error_reply_raises
              IN
              /\ raised_at = "commit" => (~ is_reset /\ has_changes)
              /\ raised_at = "reply" => ~ is_reset
              /\ raised_at = "none" => ~ error_reply_raises
              /\ is_reset => (~ fresh_session /\ ~ has_changes)
              /\ ~ started => ~ fresh_session
              /\ session_file' = IF is_reset THEN None
                                 ELSE IF started /\ fresh_session THEN Some(update.update_id)
                                 ELSE session_file
              /\ claude_runs' = IF started THEN Append(claude_runs, update.update_id)
                                ELSE claude_runs
              /\ commits' = IF committed THEN Append(commits, update.update_id) ELSE commits
              /\ replies' = replies
                    \o (IF is_reset /\ raised_at = "none"
                        THEN <<Reply(update, "Session cleared")>> ELSE <<>>)
                    \o (IF started THEN <<Reply(update, "Processing...")>> ELSE <<>>)
                    \o (IF started /\ raised_at = "none"
                        THEN <<Reply(update, IF committed THEN "response and commit"
                                             ELSE "response")>>
                        ELSE <<>>)
                    \o (IF error_sent THEN <<Reply(update, "Error")>> ELSE <<>>)
              /\ IF raised_at # "none" /\ error_reply_raises
                 THEN /\ batch' = <<>>
                      /\ bot_pc' = "poll"
                      /\ delay' = backoff_delay(retries)
                      /\ retries' = retries + 1
                 ELSE /\ batch' = Tail(batch)
                      /\ bot_pc' = IF Tail(batch) = <<>> THEN "poll" ELSE "batch"
                      /\ UNCHANGED <<delay, retries>>
    /\ UNCHANGED <<tg_updates, tg_confirmed, offset_file, offset, dequeued, handled,
                   interrupted>>

\* the process is stopped and started again: offset = load_offset(); retries = 0
Restart ==
    /\ offset' = load_offset(offset_file)
    /\ retries' = 0
    /\ delay' = 0
    /\ batch' = <<>>
    /\ bot_pc' = "poll"
    /\ interrupted' = IF bot_pc = "handling"
                      THEN interrupted \cup {Head(batch).update_id} ELSE interrupted
    /\ UNCHANGED <<tg_updates, tg_confirmed, offset_file, session_file, dequeued, handled,
                   claude_runs, commits, replies>>

----------------------------------------------------------------------------
(* Specifications: one per component, the other components idle *)

ClassifyNext == Categorize /\ UNCHANGED <<parserVars, selectorVars, deliveryVars, runVars, digestVars, botVars>>

InitClassify == ClassifierInit /\ ParserIdle /\ SelectorIdle /\ DeliveryIdle /\ RunIdle /\ DigestIdle /\ BotIdle

SpecClassify == InitClassify /\ [][ClassifyNext]_vars

ParseNext == ParseChanges /\ UNCHANGED <<classifierVars, selectorVars, deliveryVars, runVars, digestVars, botVars>>

InitParse == ParserInit /\ ClassifierIdle /\ SelectorIdle /\ DeliveryIdle /\ RunIdle /\ DigestIdle /\ BotIdle

SpecParse == InitParse /\ [][ParseNext]_vars

SelectNext == IdentifyTryThis /\ UNCHANGED <<classifierVars, parserVars, deliveryVars, runVars, digestVars, botVars>>

InitSelect == SelectorInit /\ ClassifierIdle /\ ParserIdle /\ DeliveryIdle /\ RunIdle /\ DigestIdle /\ BotIdle

SpecSelect == InitSelect /\ [][SelectNext]_vars

DeliverNext ==
    \/ SendDigest /\ UNCHANGED <<classifierVars, parserVars, selectorVars, runVars, digestVars, botVars>>
    \/ SendMessage /\ UNCHANGED <<classifierVars, parserVars, selectorVars, runVars, digestVars, botVars>>

InitDeliver == DeliveryInit /\ ClassifierIdle /\ ParserIdle /\ SelectorIdle /\ RunIdle /\ DigestIdle /\ BotIdle

SpecDeliver == InitDeliver /\ [][DeliverNext]_vars

RunNext ==
    \/ Generate /\ UNCHANGED <<classifierVars, parserVars, selectorVars, deliveryVars, digestVars, botVars>>
    \/ DeliverChunk /\ UNCHANGED <<classifierVars, parserVars, selectorVars, deliveryVars, digestVars, botVars>>
    \/ DeliverFail /\ UNCHANGED <<classifierVars, parserVars, selectorVars, deliveryVars, digestVars, botVars>>
    \/ Exit /\ UNCHANGED <<classifierVars, parserVars, selectorVars, deliveryVars, digestVars, botVars>>

InitRun == RunInit /\ ClassifierIdle /\ ParserIdle /\ SelectorIdle /\ DeliveryIdle /\ DigestIdle /\ BotIdle

SpecRun == InitRun /\ [][RunNext]_vars

DigestNext ==
    \/ FetchReleases /\ UNCHANGED <<classifierVars, parserVars, selectorVars, deliveryVars, runVars, botVars>>
    \/ EnrichDigest /\ UNCHANGED <<classifierVars, parserVars, selectorVars, deliveryVars, runVars, botVars>>
    \/ FormatDigest /\ UNCHANGED <<classifierVars, parserVars, selectorVars, deliveryVars, runVars, botVars>>
    \/ SendPayload /\ UNCHANGED <<classifierVars, parserVars, selectorVars, deliveryVars, runVars, botVars>>

InitDigest ==
    DigestInit /\ ClassifierIdle /\ ParserIdle /\ SelectorIdle /\ DeliveryIdle /\ RunIdle /\ BotIdle

SpecDigest == InitDigest /\ [][DigestNext]_vars

BotNext ==
    \/ NewUpdate /\ UNCHANGED <<classifierVars, parserVars, selectorVars, deliveryVars, runVars, digestVars>>
    \/ PollUpdates /\ UNCHANGED <<classifierVars, parserVars, selectorVars, deliveryVars, runVars, digestVars>>
    \/ PollError /\ UNCHANGED <<classifierVars, parserVars, selectorVars, deliveryVars, runVars, digestVars>>
    \/ DequeueUpdate /\ UNCHANGED <<classifierVars, parserVars, selectorVars, deliveryVars, runVars, digestVars>>
    \/ HandleMessage /\ UNCHANGED <<classifierVars, parserVars, selectorVars, deliveryVars, runVars, digestVars>>
    \/ Restart /\ UNCHANGED <<classifierVars, parserVars, selectorVars, deliveryVars, runVars, digestVars>>

InitBot ==
    BotInit /\ ClassifierIdle /\ ParserIdle /\ SelectorIdle /\ DeliveryIdle /\ RunIdle /\ DigestIdle

SpecBot == InitBot /\ [][BotNext]_vars
----------------------------------------------------------------------------
(* Claims about the classifier *)

Categories == {"New Features", "Improvements", "Bug Fixes", "Performance",
               "IDE & Editor", "Documentation", "Changes", "Other Changes"}

NoRuleMatches(text) ==
    \A r \in 1..Len(CATEGORY_RULES) :
        \A j \in 1..Len(CATEGORY_RULES[r].patterns) :
            ~ re_search(CATEGORY_RULES[r].patterns[j], str_lower(text))

\* C1: every call of categorize_change returns one category of the closed
\* set, repeated calls on the same text return the same category, and the
\* result is "Other Changes" exactly when no pattern of any rule matches
\* the lower-cased text.
C1_TotalDeterministic ==
    \A i \in 1..Len(category_log) :
        /\ category_log[i] \in Categories
        /\ category_log[i] = category_log[1]
        /\ (category_log[i] = "Other Changes") <=> NoRuleMatches(change)

\* a text with an upper-case keyword was classified twice, another text fell
\* through to the catch-all
C1_Witness ==
    /\ Len(category_log) = MaxCalls
    /\ change = <<"p","r","e","f","i","x">> \o Space \o <<"d","o","c","s">>
    /\ category_log[MaxCalls] = "Other Changes"

RuleOrder == <<"Bug Fixes", "IDE & Editor", "Performance", "New Features",
               "Improvements", "Documentation", "Changes">>

PatternsOf(cat) ==
    CATEGORY_RULES[CHOOSE r \in 1..Len(CATEGORY_RULES) :
                       CATEGORY_RULES[r].category = cat].patterns

FirstInOrder(text) ==
    LET hits == {k \in 1..Len(RuleOrder) :
                    any_search(PatternsOf(RuleOrder[k]), str_lower(text))}
    IN  IF hits = {} THEN "Other Changes" ELSE RuleOrder[Min(hits)]

MatchesFix(text) ==
    \/ re_search(Pat(TRUE, FALSE, <<"f","i","x">>, <<>>, FALSE), str_lower(text))
    \/ re_search(Pat(FALSE, TRUE, <<"f","i","x">>, <<"e","d">>, TRUE), str_lower(text))

MatchesAdd(text) ==
    re_search(Pat(TRUE, FALSE, <<"a","d","d","e">>, <<"d">>, TRUE), str_lower(text))

\* C2: the result is the category of the first rule, in the order Bug Fixes,
\* IDE & Editor, Performance, New Features, Improvements, Documentation,
\* Changes, with a matching pattern; a text matching a "fix" and an "add"
\* pattern is Bug Fixes; the three example lines classify to Bug Fixes,
\* New Features, Performance.
C2_FirstMatchWins ==
    category_log # <<>> =>
        /\ category_log[1] = FirstInOrder(change)
        /\ (MatchesFix(change) /\ MatchesAdd(change)) => category_log[1] = "Bug Fixes"
        /\ change = FixedCrashOnStartup => category_log[1] = "Bug Fixes"
        /\ change = AddedDarkModeToggle => category_log[1] = "New Features"
        /\ change = ImprovedStartupSpeed => category_log[1] = "Performance"

\* "Added fix" matches a fix pattern and the add pattern and was classified
C2_Witness ==
    /\ category_log # <<>>
    /\ change = <<"A","d","d","e","d">> \o Space \o <<"f","i","x">>
    /\ MatchesFix(change) /\ MatchesAdd(change)
    /\ category_log[1] = "Bug Fixes"

----------------------------------------------------------------------------
(* Claims about the change extractor *)

\* the lines of the body as the claims see them
BodyLines == IF body = <<>> \/ body[1] = <<>> THEN <<>> ELSE str_split_nl(body[1])

Trimmed(raw) ==
    IF \A i \in 1..Len(raw) : raw[i] \in Whitespace THEN <<>>
    ELSE LET first == Min({i \in 1..Len(raw) : raw[i] \notin Whitespace})
             last == CHOOSE j \in 1..Len(raw) :
                        /\ raw[j] \notin Whitespace
                        /\ \A i \in (j + 1)..Len(raw) : raw[i] \in Whitespace
         IN  SubSeq(raw, first, last)

\* length of the one leading marker of a trimmed line, with the whitespace after it
LeadingMarkerLen(t) ==
    IF t = <<>> THEN 0
    ELSE IF t[1] \in {"-", "*"} THEN 1 + ws_run(t, 2)
    ELSE IF digit_dot_len(t, 1) > 0 THEN digit_dot_len(t, 1) + ws_run(t, digit_dot_len(t, 1) + 1)
    ELSE 0

MarkerStripped(raw) ==
    LET t == Trimmed(raw) IN SubSeq(t, LeadingMarkerLen(t) + 1, Len(t))

YieldsItem(raw) ==
    /\ LeadingMarkerLen(Trimmed(raw)) > 0
    /\ Len(MarkerStripped(raw)) >= 6

\* C8: a line yields a change item if and only if, after trimming, it begins
\* with a bullet or numeric-list marker and its text after marker stripping
\* has at least 6 characters; items come in line order; an empty or missing
\* body yields the empty list.
C8_ExtractIff ==
    parse_done =>
        /\ change_lines = SelectSeq(BodyLines, YieldsItem)
        /\ Len(changes) = Len(change_lines)
        /\ (body = <<>> \/ body[1] = <<>>) => changes = <<>>

\* C9: every extracted change equals its trimmed line with the single
\* leading marker and the whitespace after it removed, the rest unchanged.
C9_MarkerOnly ==
    parse_done =>
        /\ Len(changes) = Len(change_lines)
        /\ \A i \in 1..Len(changes) : changes[i] = MarkerStripped(change_lines[i])

----------------------------------------------------------------------------
(* Claims about the "Try This" selector *)

EligibleInput == SelectSeq(all_changes, is_eligible)

\* C10: in the candidate list every eligible item matching an actionable
\* keyword precedes every eligible item that does not, and within each of
\* the two tiers the items keep their relative order from the input list.
C10_TiersKeepOrder ==
    select_done =>
        LET Worthy(x) == is_try_worthy(x)
            Plain(x) == ~ is_try_worthy(x)
        IN  notable = SelectSeq(EligibleInput, Worthy) \o SelectSeq(EligibleInput, Plain)

\* the lower-cased text begins with the word w
BeginsWithWord(text, w) ==
    /\ Len(text) >= Len(w)
    /\ SubSeq(str_lower(text), 1, Len(w)) = w
    /\ (Len(text) > Len(w) => ~ IsWordChar(text[Len(w) + 1]))

\* the text begins with an "Added" or "Changed" verb ("adde" and "change"
\* are the forms without the final d)
BeginsAddedChanged(text) ==
    \E w \in {<<"a","d","d","e","d">>, <<"a","d","d","e">>,
              <<"c","h","a","n","g","e","d">>, <<"c","h","a","n","g","e">>} :
        BeginsWithWord(text, w)

MatchesNoExclusion(text) ==
    \A j \in 1..Len(skip_patterns) : ~ re_search(skip_patterns[j], str_lower(text))

\* the result item that an input item is rendered as
RenderedTry(x) == IF Len(x) > 80 THEN SubSeq(x, 1, 77) \o <<".", ".", ".">> ELSE x

----------------------------------------------------------------------------
(* Claims about delivery *)

\* C6: every payload handed to the transport is within the ceiling: the
\* digest text posted by send_digest has at most 4000 characters and every
\* chunk posted by the bot's send_message has at most MAX_MSG_LEN (3900).
C6_ChunkSizeBound ==
    /\ \A i \in 1..Len(posted) : txt_len(posted[i]) <= 4000
    /\ \A i \in 1..Len(reply_posted) : txt_len(reply_posted[i]) <= 3900

\* a digest over the ceiling was cut and posted, and a reply without an
\* early newline went out in several chunks
C6_Witness ==
    /\ txt_len(digest) > 4000 /\ Len(posted) = 1 /\ txt_len(posted[1]) = 4000
    /\ txt_len(reply) > 3900 /\ reply[1] > 3900 /\ Len(reply_posted) >= 2

----------------------------------------------------------------------------
(* Claims about pipeline runs and the tracking state *)

AllTrue(outcomes) == \A i \in 1..Len(outcomes) : outcomes[i]

\* C3: the tracking state is written only after every chunk has been
\* delivered; when the send of a chunk fails, no later chunk is sent, the
\* run reports failure and the state store equals its content before the run.
C3_CommitAfterDelivery ==
    run_result # "none" =>
        /\ store # loaded =>
              /\ run_result = "ok"
              /\ Len(attempts) = Len(chunks)
              /\ AllTrue(attempts)
        /\ run_result = "running" => store = loaded /\ AllTrue(attempts)
        /\ run_result = "ok" => store = scratch /\ Len(attempts) = Len(chunks)
        /\ run_result = "failed" =>
              /\ store = loaded
              /\ Len(attempts) <= Len(chunks)
              /\ ~ attempts[Len(attempts)]
              /\ AllTrue(SubSeq(attempts, 1, Len(attempts) - 1))

\* the second of three chunks failed while there was new state to commit
C3_Witness ==
    /\ run_result = "failed"
    /\ Len(chunks) = 3
    /\ attempts = <<TRUE, FALSE>>
    /\ scratch # store

GithubRunSources == {k \in Range(RunSources) : k \in DOMAIN GITHUB_SOURCES}
WebRunSources == {k \in Range(RunSources) : k \in DOMAIN WEB_SOURCES}

\* the version identifier under which a fetched release is reported
ReportedVersion(r) == IF "tag_name" \in DOMAIN r THEN r.tag_name ELSE TAG_UNKNOWN

\* C4: get_release_data never returns a release whose version identifier is
\* in seen_versions: the returned versions are the fetched ones not in
\* seen_versions, in fetch order, and the result is None when every fetched
\* release is already seen.
C4_SeenNeverReturned ==
    run_result # "none" =>
        \A k \in GithubRunSources :
            LET seen == loaded[k].seen_versions
                json == IF fetched[k].ok THEN fetched[k].json ELSE <<>>
                Unseen(r) == ReportedVersion(r) \notin seen
                unseen == SelectSeq(json, Unseen)
            IN  /\ data[k] # None => Range(data[k][1].versions) \cap seen = {}
                /\ data[k] # None =>
                      data[k][1].versions = [i \in 1..Len(unseen) |-> ReportedVersion(unseen[i])]
                /\ unseen = <<>> => data[k] = None

\* the page of web source k came back with the fingerprint already stored
SamePage(k) ==
    /\ run_result # "none"
    /\ fetched[k].ok
    /\ fetched[k].text # ""
    /\ sha256_hex(fetched[k].text) = loaded[k].content_hash

InDigest(k) ==
    \E i \in 1..Len(chunks) : \E j \in 1..Len(chunks[i]) : chunks[i][j].part = k

C7_CapInvariant ==
    /\ \A k \in Range(RunSources) : Cardinality(store[k].seen_versions) <= 50
    /\ run_result = "ok" =>
          \A k \in Range(RunSources) :
              data[k] # None =>
                  LET union == loaded[k].seen_versions \cup Range(data[k][1].versions)
                      kept == store[k].seen_versions
                  IN  IF Cardinality(union) > 50
                      THEN /\ kept \subseteq union
                           /\ Cardinality(kept) = 50
                           /\ \A v \in kept : \A w \in union \ kept : w < v
                      ELSE InDigest(k) => kept = union

\* ten new versions were committed on top of fifty seen ones
C7_Witness ==
    /\ run_result = "ok"
    /\ Cardinality(loaded["claude-code"].seen_versions) = 50
    /\ data["claude-code"] # None
    /\ Len(data["claude-code"][1].versions) = 10
    /\ store["claude-code"].seen_versions = 61..110

----------------------------------------------------------------------------
(* Claims about the digest command line *)

Composed == cli_pc \in {"formatted", "exited"} /\ cli_releases # <<>>

RenderedLines == str_split_nl(digest_text)

HeaderLine(c) == emoji_map[c] \o <<" ", "*">> \o category_text[c] \o <<"*">>

\* the categories of the category header lines of the digest, top to bottom
RenderedCategories ==
    LET ls == RenderedLines
        heads == SelectSeq(ls, LAMBDA l : \E c \in Categories : l = HeaderLine(c))
    IN  [i \in 1..Len(heads) |-> CHOOSE c \in Categories : heads[i] = HeaderLine(c)]

Position(order, c) == CHOOSE i \in 1..Len(order) : order[i] = c

FollowsOrder(order) ==
    Composed =>
        \A i, j \in 1..Len(RenderedCategories) :
            i < j => Position(order, RenderedCategories[i]) < Position(order, RenderedCategories[j])

\* C12 as stated: the category sections of a digest appear in the order New
\* Features, Improvements, Bug Fixes, Performance, IDE & Editor,
\* Documentation, Changes, Other Changes.
C12_DataModelOrder ==
    FollowsOrder(<<"New Features", "Improvements", "Bug Fixes", "Performance",
                   "IDE & Editor", "Documentation", "Changes", "Other Changes">>)

\* C12: the category sections of a digest that are present appear, each
\* once, in the order New Features, Improvements, IDE & Editor, Performance,
\* Bug Fixes, Changes, Documentation, Other Changes.
C12_DisplayOrder ==
    FollowsOrder(<<"New Features", "Improvements", "IDE & Editor", "Performance",
                   "Bug Fixes", "Changes", "Documentation", "Other Changes">>)

\* a digest with a section for each of the eight categories
C12_Witness ==
    /\ Composed
    /\ Len(RenderedCategories) = 8
    /\ Range(RenderedCategories) = Categories

FooterLink ==
    <<"[","V","i","e","w"," ","o","n"," ","G","i","t","H","u","b","]","(">>
    \o cli_releases[1].html_url \o <<")">>

LastLine(text) == LET ls == str_split_nl(text) IN ls[Len(ls)]

\* C13: whenever a digest of a non-empty set of releases is handed to the
\* transport, the last line of the delivered text is the link to the
\* releases page.
C13_DeliveredEndsWithLink ==
    (cli_releases # <<>> /\ payload_text # None) =>
        LastLine(payload_text[1]) = FooterLink

ItemLine(item) ==
    <<" ", " ">> \o NonAscii(3) \o <<" ">> \o
    escape_markdown(IF Len(item) > 100 THEN SubSeq(item, 1, 97) \o Ellipsis ELSE item)

ElisionNote(k) ==
    <<" "," ","_",".",".",".","a","n","d"," ">> \o str_int(k) \o <<" ","m","o","r","e","_">>

IsElisionNote(l) == \E k \in 0..(Len(digest_text) + 1) : l = ElisionNote(k)

\* the lines of the section of category c, from the line after its header to
\* the blank line that closes it
SectionLines(c) ==
    LET ls == RenderedLines
        h == Min({i \in 1..Len(ls) : ls[i] = HeaderLine(c)})
        e == Min({i \in (h + 1)..Len(ls) : ls[i] = <<>>})
    IN  SubSeq(ls, h + 1, e - 1)

\* C14: a category with n items renders its first min(n, 8) items in source
\* order; when n > 8 they are followed by exactly one elision note with the
\* count n - 8, and when n <= 8 no elision note is rendered.
C14_CategoryCap ==
    Composed =>
        \A c \in DOMAIN categorized :
            LET n == Len(categorized[c])
                k == IF n < 8 THEN n ELSE 8
                sec == SectionLines(c)
            IN  /\ n > 0
                /\ Len(sec) = k + (IF n > 8 THEN 1 ELSE 0)
                /\ \A i \in 1..k : sec[i] = ItemLine(categorized[c][i])
                /\ n > 8 => sec[k + 1] = ElisionNote(n - 8)
                /\ n <= 8 => \A i \in 1..Len(sec) : ~ IsElisionNote(sec[i])

\* a digest with a category of more than eight items and a category of at
\* most eight items
C14_Witness ==
    /\ Composed
    /\ \E c \in DOMAIN categorized : Len(categorized[c]) > 8
    /\ \E c \in DOMAIN categorized : Len(categorized[c]) <= 8

\* C16: in a run without delivery credentials no feed fetch and no
\* enrichment call happens, and the failure is not reported as a send
\* failure.
C16_NoFetchWithoutCredentials ==
    (~ preview_only /\ ~ has_credentials) =>
        /\ \A i \in 1..Len(events) : events[i] \notin {"fetch", "enrich"}
        /\ report # "Failed to send"

Delivered == post_outcome = "accepted"

\* C18: a run that is not a preview ends with send_digest having returned
\* True and exit status 0 when the transport accepted the digest, and with
\* send_digest having returned False and exit status 1 otherwise (send
\* failure or missing credentials); a preview posts nothing and ends with
\* status 0.
C18_StatusReflectsDelivery ==
    cli_pc = "exited" =>
        IF preview_only
        THEN /\ \A i \in 1..Len(events) : events[i] \notin {"notifier", "post"}
             /\ exit_status = Some(0)
        ELSE /\ success = Some(Delivered)
             /\ exit_status = Some(IF Delivered THEN 0 ELSE 1)

----------------------------------------------------------------------------
(* Claims about runs with nothing new and about failed fetches *)

CaughtUpRun == pc \in {"delivering", "done"} /\ NothingNew

\* C15: a run in which no source has anything new composes the header
\* followed by the one "all caught up" sentinel (never an empty body), counts
\* as successful once the transport has accepted that digest, and leaves the
\* persisted state as it was; this holds for every such run, so also for the
\* second of two such runs in a row.
C15_CaughtUpIdempotent ==
    /\ [](CaughtUpRun =>
            /\ Len(chunks) = 1
            /\ [i \in 1..Len(chunks[1]) |-> chunks[1][i].part] = <<"header", "caught-up">>
            /\ scratch = loaded
            /\ store = loaded
            /\ (pc = "done" /\ attempts = <<TRUE>>) => run_result = "ok")
    /\ [][CaughtUpRun => store' = store]_vars

\* the second of two runs in a row with nothing new has been delivered
C15_Witness ==
    /\ previous = "caught-up"
    /\ CaughtUpRun
    /\ pc = "done"
    /\ run_result = "ok"
    /\ store = loaded

AllSourceKeys == DOMAIN GITHUB_SOURCES \cup DOMAIN WEB_SOURCES

\* the fetch timed out, or the answer could not be decoded, or it was empty
SoftFailure(k, response) ==
    \/ ~ response.ok
    \/ k \in DOMAIN GITHUB_SOURCES /\ response.json = <<>>
    \/ k \in DOMAIN WEB_SOURCES /\ response.text = ""

SeenSets == {{}, {12}, 51..100}

\* C17: a fetch that times out, or whose answer is empty or cannot be
\* decoded, makes fetch_releases return the empty list and get_release_data
\* return None; the run of the command line then still composes a digest
\* (the "caught up" text) and, outside preview mode and with credentials,
\* hands it to the transport, and its exit status is that of the delivery.
C17_SoftFailureContinues ==
    /\ \A k \in AllSourceKeys : \A response \in ResponsesOf(k) : \A seen \in SeenSets :
          SoftFailure(k, response) => get_release_data(k, seen, response) = None
    /\ (cli_pc # "main" /\ ~ api.ok) => cli_releases = <<>>
    /\ (cli_pc = "exited" /\ ~ api.ok) =>
          /\ digest_text = DIGEST_HEADER \o <<"\n", "\n">> \o CAUGHT_UP
          /\ (~ preview_only /\ has_credentials) =>
                /\ events = <<"fetch", "notifier", "post">>
                /\ payload_text = Some(digest_text)
                /\ exit_status = Some(IF post_outcome = "accepted" THEN 0 ELSE 1)
          /\ preview_only => exit_status = Some(0)

\* the answer to the fetch could not be decoded, and the "caught up" digest
\* was delivered
C17_Witness ==
    /\ cli_pc = "exited"
    /\ ~ api.ok
    /\ api.error = "JSONDecodeError"
    /\ cli_releases = <<>>
    /\ post_outcome = "accepted"
    /\ exit_status = Some(0)

----------------------------------------------------------------------------
(* Claims about the bot *)

UpdateOf(id) == tg_updates[id - FIRST_UPDATE_ID + 1]

NoDuplicates(log) == \A i, j \in 1..Len(log) : i # j => log[i] # log[j]

\* C19: no update is passed to handle_message more than once; an update is
\* being handled only when the offset file already holds its id + 1; and
\* once an update has been dequeued the offset file holds 1 + the id of the
\* update dequeued last.
C19_AtMostOnce ==
    /\ NoDuplicates(handled)
    /\ bot_pc = "handling" => load_offset(offset_file) = Some(Head(batch).update_id + 1)
    /\ dequeued # <<>> => load_offset(offset_file) = Some(dequeued[Len(dequeued)] + 1)
    /\ dequeued = <<>> => offset_file = None

\* a restart cut the handling of an update short, a poll failed and was
\* retried after the back-off, a handler raised and was answered with the
\* error message, and every update has been passed to handle_message
C19_Witness ==
    /\ interrupted # {}
    /\ Len(handled) = MaxUpdates
    /\ bot_pc = "poll"
    /\ retries = 0
    /\ delay > 0
    /\ \E i \in 1..Len(replies) : replies[i].text = "Error"

Rejected(update) == msg_chat_id(update) # CHAT_ID \/ msg_text(update) = <<>>

\* C20: an update from a chat other than the configured one, or without
\* text, is never passed to handle_message, starts no Claude run, no commit
\* and no reply; the step that takes it from the batch changes nothing but
\* the offset, in memory and in the offset file.
C20_RejectedHasNoEffect ==
    /\ [](\A i \in 1..Len(tg_updates) :
            Rejected(tg_updates[i]) =>
                LET id == tg_updates[i].update_id
                IN  /\ \A j \in 1..Len(handled) : handled[j] # id
                    /\ \A j \in 1..Len(claude_runs) : claude_runs[j] # id
                    /\ \A j \in 1..Len(commits) : commits[j] # id
                    /\ \A j \in 1..Len(replies) : replies[j].update_id # id)
    /\ [][(bot_pc = "batch" /\ Rejected(Head(batch)) /\ Len(dequeued') > Len(dequeued)) =>
            /\ offset_file' = Some(str_int(Head(batch).update_id + 1))
            /\ UNCHANGED <<session_file, handled, claude_runs, commits, replies, tg_updates,
                           retries, delay>>]_vars

\* an update of another chat and an update of the configured chat without
\* text have been taken from a batch: the offset file is past both, nothing
\* was handled and nothing was sent
C20_Witness ==
    /\ Len(dequeued) >= 2
    /\ \E i \in 1..Len(dequeued) :
          LET u == UpdateOf(dequeued[i])
          IN  msg_chat_id(u) # CHAT_ID /\ msg_text(u) # <<>>
    /\ \E i \in 1..Len(dequeued) :
          LET u == UpdateOf(dequeued[i])
          IN  msg_chat_id(u) = CHAT_ID /\ msg_text(u) = <<>>
    /\ offset_file = Some(str_int(dequeued[Len(dequeued)] + 1))
    /\ handled = <<>>
    /\ replies = <<>>

====
